---- MODULE Spec2Model ----
(***************************************************************************)
(* Model of the spreadsheet-to-warehouse import pipeline of src/src/main.py *)
(* (main, import_team_capacity, process_data_group, the retrying            *)
(* export/fetch operations, process_team_sheet_from_gcs and                 *)
(* upload_to_bigquery).  Spec is the whole run, SpecMain the run with every *)
(* kind of trigger event, SpecLive the run under fairness, SpecRetry the    *)
(* retrying operations alone and SpecData the data path at cell level.      *)
(*                                                                          *)
(* Strings built with f-strings are modelled as sequences of their parts;   *)
(* an identifier "a_b" is the token sequence <<"a", "b">>.  Configuration   *)
(* entries carry every key the code indexes without a default (table_id,    *)
(* team, department), so no KeyError is raised while walking a group.       *)
(***************************************************************************)
EXTENDS Integers, Sequences, FiniteSets, TLC

(***************************************************************************)
(* Program constants                                                        *)
(***************************************************************************)
MAX_RETRIES == 5
RETRY_DELAY_BASE == 3
RetryableStatus == {429, 500, 502, 503, 504}

(***************************************************************************)
(* Bounds of the model                                                      *)
(***************************************************************************)
\* most data rows one exported sheet holds
MaxRows == 2

\* HTTP statuses the remote service answers a failed request with
HttpStatuses == {404, 429, 503}

(***************************************************************************)
(* Values                                                                   *)
(***************************************************************************)
\* a key that is absent from a configuration dict (dict.get gives None)
Missing == "<missing>"
\* python truthiness of an optional string
Truthy(s) == s # Missing /\ s # ""
\* str.strip() == '' for the sheet ids of the model
IsBlank(s) == s \in {"", " ", "  "}

NoException == [type |-> "None", status |-> 0]
HttpError(s) == [type |-> "HttpError", status |-> s]
OtherException == [type |-> "Exception", status |-> 0]

RECURSIVE Pow2(_)
Pow2(n) == IF n = 0 THEN 1 ELSE 2 * Pow2(n - 1)

RECURSIVE Flatten(_)
\* pd.concat(frames, ignore_index=True) on the rows of the frames
Flatten(frames) ==
    IF frames = <<>> THEN <<>> ELSE Head(frames) \o Flatten(Tail(frames))

SeqRange(s) == {s[i] : i \in 1..Len(s)}

\* the orders an unordered set can be listed in
Orderings(S) ==
    {s \in [1..Cardinality(S) -> S] : \A i, j \in 1..Cardinality(S) : s[i] = s[j] => i = j}

(***************************************************************************)
(* State                                                                    *)
(***************************************************************************)
VARIABLES
    config,            \* parsed content of config.json
    target_group,      \* os.environ CONFIG_GROUP
    event,             \* main: the trigger event
    response,          \* main: what it returned
    pc,                \* position of the run
    setup,             \* how reading the configuration and the credentials ended
    returned,          \* value import_team_capacity returned (<<>> before)
    all_results,       \* import_team_capacity: all_results
    groups_processed,  \* import_team_capacity: groups_processed
    gi,                \* index of the config item being visited
    results,           \* process_data_group: results
    vi,                \* index of the view being processed
    departments,       \* process_data_group: departments of the view
    di,                \* index of the department being processed
    table_id,          \* process_data_group: table_id of the unit
    ti,                \* index into department_team_sheets
    all_team_data,     \* process_data_group: all_team_data
    team_df,           \* process_data_group: df, what the normalisation of the team
                       \* returned (line 503)
    call,              \* the retrying operation that is executing
    request,           \* the request its attempts send (lines 89-92, 218-221)
    attempt,           \* its loop variable
    last_exception,    \* its last_exception
    wait_time,         \* its last backoff sleep
    sleeps,            \* the time.sleep calls it has made, in order
    ret,               \* "idle", "running", "returned" or "raised"
    retval,            \* what it returned
    combined_df,       \* process_data_group: combined_df
    staged,            \* lines of the staging blob of the current upload
    datasets,          \* warehouse: existing datasets
    tables,            \* warehouse: table key -> rows
    unit,              \* history of the unit being processed
    units,             \* units iterated over in the current group
    fetchLog,          \* <<group, view index, team>> of every export that was started
    csv_contents,      \* history of the cell-level specification: the csv_content
                       \* (line 163) of each team whose frame joined all_team_data
    nameCalls,         \* every get_table_name call with its result
    lastLoad           \* table key -> the dataset of the latest load job of the run,
                       \* the rows the table held before it and the units
                       \* <<group, view index, department>> that loaded the table

envVars == <<config, target_group>>
mainVars == <<event, response>>
runVars == <<returned, all_results, groups_processed, gi>>
groupVars == <<results, vi, departments, di, table_id, ti, all_team_data, team_df>>
retryVars == <<call, request, attempt, last_exception, wait_time, sleeps, ret, retval>>
uploadVars == <<combined_df, staged>>
warehouseVars == <<datasets, tables, lastLoad>>
historyVars == <<unit, units, fetchLog, csv_contents, nameCalls>>
vars == <<envVars, mainVars, pc, setup, runVars, groupVars, retryVars, uploadVars, warehouseVars,
          historyVars>>

(***************************************************************************)
(* get_table_prefix / get_table_name                                        *)
(***************************************************************************)
get_table_prefix(department) ==
    IF department = "Paid Media" THEN "performance"
    ELSE IF department = "Paid Content" THEN "content"
    ELSE "unknown"

RECURSIVE RemovePrefixToken(_, _)
\* str.replace(tok + '_', ''): every token tok that is followed by another
\* token disappears together with its underscore
RemovePrefixToken(id, tok) ==
    IF Len(id) <= 1 THEN id
    ELSE IF Head(id) = tok THEN RemovePrefixToken(Tail(id), tok)
    ELSE <<Head(id)>> \o RemovePrefixToken(Tail(id), tok)

\* mutant: the name is made unique with the position of the view in its group
get_table_name_numbered(view, department, use_department_prefixes) ==
    IF ~use_department_prefixes THEN view.table_id
    ELSE LET prefix == get_table_prefix(department)
             base_table_id ==
                 RemovePrefixToken(RemovePrefixToken(view.table_id, "performance"), "content")
         IN  IF vi > 1 THEN <<prefix>> \o base_table_id \o <<ToString(vi)>>
             ELSE <<prefix>> \o base_table_id

get_table_name(view, department, use_department_prefixes) ==
    IF ~use_department_prefixes THEN view.table_id
    ELSE LET prefix == get_table_prefix(department)
             base_table_id ==
                 RemovePrefixToken(RemovePrefixToken(view.table_id, "performance"), "content")
         IN  <<prefix>> \o base_table_id

(***************************************************************************)
(* Configurations (config.json) the runs are checked on                     *)
(***************************************************************************)
TeamSheet(team, department, sheet_id) ==
    [team |-> team, department |-> department, sheet_id |-> sheet_id]

\* department = Missing: the view has no 'department' key
View(name, id, sheet_name, department, columns) ==
    [name |-> name, table_id |-> id, sheet_name |-> sheet_name,
     department |-> department, columns |-> columns]

Group(enabled, dataset_id, prefixes, team_sheets, views) ==
    [kind |-> "group", enabled |-> enabled, dataset_id |-> dataset_id,
     use_department_prefixes |-> prefixes, team_sheets |-> team_sheets,
     aggregated_views |-> views]

\* a dict value that has no team_sheets / aggregated_views
OtherItem == [kind |-> "other"]

TeamsA(t3id) ==
    << TeamSheet("T1", "Paid Media", "s1"),
       TeamSheet("T2", "Paid Media", "s2"),
       TeamSheet("T3", "Paid Content", t3id) >>

\* T6 has no 'sheet_id' key, T7 has the empty sheet_id
TeamsB ==
    << TeamSheet("T4", "Paid Content", "s4"),
       TeamSheet("T6", "Design", Missing),
       TeamSheet("T5", "Design", "s5"),
       TeamSheet("T7", "Design", "") >>

Capacity == View("capacity", <<"capacity">>, "Cap", Missing, {<<"Std", "hours">>})
Forecast(dept) ==
    View("forecast", <<"performance", "forecast">>, "Fc", dept, {<<"Std", "hours">>})
Unnamed == View("budget", <<"budget">>, "", Missing, {})
\* the forecast view without 'columns' key
Unmapped(dept) == View("forecast", <<"performance", "forecast">>, "Fc", dept, {})

Config(shape, project_id, items) ==
    [shape |-> shape, project_id |-> project_id, staging_bucket |-> "bucket",
     items |-> items]

Item(key, value) == [key |-> key, value |-> value]

\* A: two sheets of one department and a sheet without id; B writes into the
\* same dataset without prefixes, so that its two units share one table
ConfigShared ==
    Config("object", "proj",
           << Item("A", Group(TRUE, "ds_a", TRUE, TeamsA("  "), <<Capacity>>)),
              Item("meta", OtherItem),
              Item("B", Group(TRUE, "ds_a", FALSE, TeamsB, <<Capacity>>)) >>)

\* A: a view bound to one department, a view bound to a department without
\* sheets and a view without sheet name; B is disabled
ConfigExplicit ==
    Config("object", "proj",
           << Item("A", Group(TRUE, "ds_a", TRUE, TeamsA("s3"),
                              <<Forecast("Paid Media"), Forecast("Design"), Unnamed>>)),
              Item("B", Group(FALSE, "ds_b", TRUE, TeamsB, <<Capacity>>)) >>)

\* A has no dataset_id; B has two views of one department and one table
ConfigNoDataset ==
    Config("object", "proj",
           << Item("A", Group(TRUE, Missing, TRUE, TeamsA("s3"), <<Capacity>>)),
              Item("B", Group(TRUE, "ds_b", TRUE, TeamsB,
                              <<Forecast("Paid Content"), Unmapped("Paid Content")>>)) >>)

Configs ==
    { Config("list", Missing, <<>>),
      Config("object", Missing, <<>>),
      ConfigShared, ConfigExplicit, ConfigNoDataset }

\* values of the CONFIG_GROUP environment variable ("" = not set)
TargetGroups == {"", "A", "B", "Z"}

\* a row that an earlier run has loaded from a sheet
LoadedRow(team, department, i) ==
    [googlesheet_name |-> <<"Strang", team>>, department |-> department, row |-> i]

TableKey(dataset, table) == <<dataset>> \o table

\* no request is being sent
NoRequest == [api |-> "none"]

\* lines 89-92: drive_service.files().export_media(fileId, mimeType)
ExportMedia(sheet_id) ==
    [api |-> "drive.files.export_media", fileId |-> sheet_id, mimeType |-> "text/csv"]

\* lines 218-221: sheets_service.spreadsheets().values().get(...), the range
\* is f"{sheet_name}!{range_value}"
ValuesGet(sheet, sheet_name, range_value) ==
    [api |-> "sheets.spreadsheets.values.get", spreadsheetId |-> sheet.sheet_id,
     range |-> <<sheet_name, "!", range_value>>,
     valueRenderOption |-> "FORMATTED_VALUE"]

NoUnit ==
    [view |-> "", department |-> "", fetching |-> FALSE, teams |-> <<>>,
     src |-> <<>>, rows |-> <<>>, log |-> {}, merged |-> FALSE, merge_raised |-> FALSE, upload |-> FALSE,
     arg |-> <<>>, staging |-> FALSE, load |-> FALSE, failure |-> "",
     done |-> FALSE]

\* the trigger event: a dict without 'data' key or with the data given
Event(data) == [data |-> data]
\* base64 text of UTF-8 text, text that is no base64, base64 of bytes that
\* are no UTF-8
Payloads == {"aGVsbG8=", "a", "/w=="}
\* base64.b64decode(data).decode('utf-8') returns
Decodable(data) == data = "aGVsbG8="
Events == {Event(Missing)} \cup {Event(d) : d \in Payloads}

\* main has not returned
NoResponse == [status |-> "none"]

\* nothing has run yet
\* NaN / None of a frame
Null == "<null>"
\* None, as process_team_sheet_from_gcs returns it at lines 170 and 205
NoFrame == [columns |-> <<>>, rows |-> <<>>, none |-> TRUE]

Frame(columns, rows) == [columns |-> columns, rows |-> rows, none |-> FALSE]

\* mutant: the handler returns a value of its own
ReturnedErrorValue == [columns |-> <<>>, rows |-> <<>>, none |-> TRUE, error |-> TRUE]

\* lines 203-205 and 293-295: what the handler of the normalisation returns
ReturnedOnError == NoFrame

\* team_df is not bound before the first team of a run; None stands for that
InitLocals ==
    /\ setup = "pending"
    /\ response = NoResponse
    /\ returned = <<>>
    /\ all_results = <<>>
    /\ groups_processed = 0
    /\ gi = 1
    /\ results = <<>>
    /\ vi = 1
    /\ departments = <<>>
    /\ di = 1
    /\ table_id = <<>>
    /\ ti = 1
    /\ all_team_data = <<>>
    /\ team_df = NoFrame
    /\ call = "none"
    /\ request = NoRequest
    /\ attempt = 0
    /\ last_exception = NoException
    /\ wait_time = 0
    /\ sleeps = <<>>
    /\ ret = "idle"
    /\ retval = <<>>
    /\ combined_df = <<>>
    /\ staged = <<>>
    /\ unit = NoUnit
    /\ units = <<>>
    /\ fetchLog = {}
    /\ csv_contents = <<>>
    /\ nameCalls = {}
    /\ lastLoad = <<>>

\* the warehouse is empty, or holds tables that earlier runs have loaded
InitWarehouse ==
    \E stale \in BOOLEAN :
       /\ datasets = IF stale THEN {"ds_a", "ds_b"} ELSE {}
       /\ tables = IF stale
                   THEN (TableKey("ds_a", <<"performance", "capacity">>)
                            :> <<LoadedRow("T0", "Paid Media", 1)>>)
                        @@ (TableKey("ds_b", <<"content", "forecast">>)
                            :> <<LoadedRow("T4", "Paid Content", 1)>>)
                   ELSE <<>>

InitRun ==
    /\ config \in Configs
    /\ target_group \in TargetGroups
    /\ event = Event(Missing)
    /\ pc = "main"
    /\ InitLocals
    /\ InitWarehouse

(***************************************************************************)
(* main (lines 367-401)                                                     *)
(***************************************************************************)
\* lines 390-394: json.dumps of the success envelope (HTTP status 200)
SuccessEnvelope(message) ==
    [status |-> "success", message |-> message, duration |-> "end_time - start_time",
     code |-> 200]

\* lines 396-401: json.dumps of the error envelope, with 500
ErrorEnvelope(e) == [status |-> "error", message |-> e, code |-> 500]

\* lines 377-385: the payload is decoded for the log, then the import is called
MainEntry ==
    /\ pc = "main"
    /\ IF event.data # Missing /\ ~Decodable(event.data)
       THEN /\ response' = ErrorEnvelope("decode error")
            /\ pc' = "main_done"
       ELSE /\ pc' = "read_config"
            /\ UNCHANGED response
    /\ UNCHANGED <<envVars, event, setup, runVars, groupVars, retryVars, uploadVars,
                   warehouseVars, historyVars>>

\* lines 385-394: import_team_capacity has returned
MainReturn ==
    /\ pc = "done"
    /\ response' = SuccessEnvelope(returned)
    /\ pc' = "main_done"
    /\ UNCHANGED <<envVars, event, setup, runVars, groupVars, retryVars, uploadVars,
                   warehouseVars, historyVars>>

(***************************************************************************)
(* import_team_capacity: setup                                              *)
(***************************************************************************)
Return(value) ==
    /\ pc' = "done"
    /\ returned' = value

\* lines 580-592 and, for a config that is no JSON object, the handler 654-657
ReadConfig ==
    /\ pc = "read_config"
    /\ \E readable \in BOOLEAN :
         IF ~readable
         THEN /\ Return(<< <<"Failed to read config file">> >>)
              /\ setup' = "config_unreadable"
         ELSE IF config.shape # "object"
         THEN /\ Return(<< <<"Error in data import:", "no attribute get">> >>)
              /\ setup' = "config_no_object"
         ELSE IF ~Truthy(config.project_id) \/ ~Truthy(config.staging_bucket)
         THEN /\ Return(<< <<"Missing project_id or staging_bucket in config">> >>)
              /\ setup' = "config_incomplete"
         ELSE /\ pc' = "init_credentials"
              /\ UNCHANGED <<returned, setup>>
    /\ UNCHANGED <<envVars, mainVars, all_results, groups_processed, gi, groupVars, retryVars,
                   uploadVars, warehouseVars, historyVars>>

\* mutant: the failure is logged and the run goes on
InitCredentialsGoesOn ==
    /\ pc = "init_credentials"
    /\ pc' = "groups"
    /\ setup' \in {"ok", "no_credentials"}
    /\ UNCHANGED <<envVars, mainVars, returned, all_results, groups_processed, gi, groupVars,
                   retryVars, uploadVars, warehouseVars, historyVars>>

\* lines 594-616
InitCredentials ==
    /\ pc = "init_credentials"
    /\ \E ok \in BOOLEAN :
         IF ok
         THEN /\ pc' = "groups"
              /\ setup' = "ok"
              /\ UNCHANGED returned
         ELSE /\ Return(<< <<"Failed to initialize credentials">> >>)
              /\ setup' = "no_credentials"
    /\ UNCHANGED <<envVars, mainVars, all_results, groups_processed, gi, groupVars, retryVars,
                   uploadVars, warehouseVars, historyVars>>

(***************************************************************************)
(* import_team_capacity: the loop over config.items() (lines 618-652)       *)
(***************************************************************************)
CurItem == config.items[gi]
group_name == CurItem.key
group_config == CurItem.value

IsDataGroup(value) == value.kind = "group"

\* lines 646-652: the loop is over
FinishRun ==
    /\ pc = "groups"
    /\ gi > Len(config.items)
    /\ all_results' =
         IF groups_processed = 0
         THEN Append(all_results,
                     <<"No groups processed. Target group:",
                       IF Truthy(target_group) THEN target_group ELSE "all">>)
         ELSE all_results
    /\ Return(all_results')
    /\ UNCHANGED <<envVars, mainVars, setup, groups_processed, gi, groupVars, retryVars, uploadVars,
                   warehouseVars, historyVars>>

\* lines 620-630: an item that is no data group, or not the target group
SkipItem ==
    /\ pc = "groups"
    /\ gi <= Len(config.items)
    /\ \/ ~IsDataGroup(group_config)
       \/ Truthy(target_group) /\ group_name # target_group
    /\ gi' = gi + 1
    /\ UNCHANGED <<envVars, mainVars, setup, pc, returned, all_results, groups_processed, groupVars,
                   retryVars, uploadVars, warehouseVars, historyVars>>

\* mutant: CONFIG_GROUP is not looked at
IsTargetedAny ==
    /\ pc = "groups"
    /\ gi <= Len(config.items)
    /\ IsDataGroup(group_config)

\* lines 626-630: a data group, and the target group if one is set
IsTargeted ==
    /\ pc = "groups"
    /\ gi <= Len(config.items)
    /\ IsDataGroup(group_config)
    /\ ~(Truthy(target_group) /\ group_name # target_group)

\* lines 632-644 with process_data_group lines 424-427
GroupDisabled ==
    /\ IsTargeted
    /\ ~group_config.enabled
    /\ groups_processed' = groups_processed + 1
    /\ all_results' = all_results \o << <<"Group", group_name, "is disabled">> >>
    /\ gi' = gi + 1
    /\ UNCHANGED <<envVars, mainVars, setup, pc, returned, groupVars, retryVars, uploadVars,
                   warehouseVars, historyVars>>

\* lines 632-644 with process_data_group lines 429-438
GroupNoDataset ==
    /\ IsTargeted
    /\ group_config.enabled
    /\ ~Truthy(group_config.dataset_id)
    /\ groups_processed' = groups_processed + 1
    /\ all_results' =
         all_results \o << <<"No dataset_id specified for group", group_name>> >>
    /\ gi' = gi + 1
    /\ UNCHANGED <<envVars, mainVars, setup, pc, returned, groupVars, retryVars, uploadVars,
                   warehouseVars, historyVars>>

\* lines 632-643 with process_data_group lines 419-440: the view loop starts
EnterGroup ==
    /\ IsTargeted
    /\ group_config.enabled
    /\ Truthy(group_config.dataset_id)
    /\ groups_processed' = groups_processed + 1
    /\ results' = <<>>
    /\ vi' = 1
    /\ pc' = "view"
    /\ units' = <<>>
    /\ unit' = NoUnit
    /\ UNCHANGED <<envVars, mainVars, setup, returned, all_results, gi, departments, di, table_id, ti,
                   all_team_data, team_df, retryVars, uploadVars, warehouseVars, fetchLog, csv_contents,
                   nameCalls>>

(***************************************************************************)
(* process_data_group: views and departments (lines 441-480)                *)
(***************************************************************************)
team_sheets == group_config.team_sheets
aggregated_views == group_config.aggregated_views
view == aggregated_views[vi]
department == departments[di]

\* mutant: the department of the view is not looked at
DepartmentListsOfGroup(v, sheets) ==
    Orderings({sheets[i].department : i \in 1..Len(sheets)})

\* lines 445-450: list(set(...)) lists the departments in an order that the
\* hash seed of the interpreter decides
DepartmentLists(v, sheets) ==
    IF v.department # Missing
    THEN {<<v.department>>}
    ELSE Orderings({sheets[i].department : i \in 1..Len(sheets)})

IsOfDepartment(team) == team.department = department
\* lines 456-457
department_team_sheets == SelectSeq(team_sheets, IsOfDepartment)

\* line 555 and lines 635-644: the group's results join all_results
GroupReturn ==
    /\ pc = "view"
    /\ vi > Len(aggregated_views)
    /\ all_results' = all_results \o results
    /\ gi' = gi + 1
    /\ pc' = "groups"
    /\ UNCHANGED <<envVars, mainVars, setup, returned, groups_processed, groupVars, retryVars,
                   uploadVars, warehouseVars, historyVars>>

\* lines 441-450
ViewBegin ==
    /\ pc = "view"
    /\ vi <= Len(aggregated_views)
    /\ \E deps \in DepartmentLists(view, team_sheets) : departments' = deps
    /\ di' = 1
    /\ pc' = "department"
    /\ UNCHANGED <<envVars, mainVars, setup, returned, runVars, results, vi, table_id, ti,
                   all_team_data, team_df, retryVars, uploadVars, warehouseVars, historyVars>>

\* the department loop of the view is over
ViewEnd ==
    /\ pc = "department"
    /\ di > Len(departments)
    /\ vi' = vi + 1
    /\ pc' = "view"
    /\ UNCHANGED <<envVars, mainVars, setup, returned, runVars, results, departments, di, table_id, ti,
                   all_team_data, team_df, retryVars, uploadVars, warehouseVars, historyVars>>

NewUnit ==
    [NoUnit EXCEPT !.view = view.name, !.department = department]

\* the unit is over: its outcome string joins results (lines 461, 472, 539,
\* 549, 553) and the department loop goes on
UnitEnd(u, entry) ==
    /\ results' = Append(results, entry)
    /\ unit' = [u EXCEPT !.done = TRUE]
    /\ di' = di + 1
    /\ pc' = "department"

\* lines 452-462
UnitNoTeams ==
    /\ pc = "department"
    /\ di <= Len(departments)
    /\ department_team_sheets = <<>>
    /\ units' = Append(units, <<vi, view.name, department>>)
    /\ UnitEnd(NewUnit, <<"No teams found for", department, "in", group_name>>)
    /\ UNCHANGED <<envVars, mainVars, setup, returned, runVars, vi, departments, table_id, ti,
                   all_team_data, team_df, retryVars, uploadVars, warehouseVars, fetchLog, csv_contents,
                   nameCalls>>

NameCall(v, d, p) ==
    [table_id |-> v.table_id, department |-> d, use_department_prefixes |-> p,
     name |-> get_table_name(v, d, p), at |-> <<group_name, vi>>]

\* mutant: the missing sheet name is logged and the team loop starts
UnitNoSheetNameGoesOn ==
    /\ pc = "department"
    /\ di <= Len(departments)
    /\ department_team_sheets # <<>>
    /\ table_id' = get_table_name(view, department, group_config.use_department_prefixes)
    /\ nameCalls' = nameCalls \cup
                      {NameCall(view, department, group_config.use_department_prefixes)}
    /\ ~Truthy(view.sheet_name)
    /\ all_team_data' = <<>>
    /\ UNCHANGED team_df
    /\ ti' = 1
    /\ pc' = "team"
    /\ units' = Append(units, <<vi, view.name, department>>)
    /\ unit' = [NewUnit EXCEPT
                  !.fetching = TRUE,
                  !.teams = [i \in 1..Len(department_team_sheets) |->
                                department_team_sheets[i].team],
                  !.src = [i \in 1..Len(department_team_sheets) |-> "pending"],
                  !.rows = [i \in 1..Len(department_team_sheets) |-> 0]]
    /\ UNCHANGED <<envVars, mainVars, setup, returned, runVars, results, vi, departments, di,
                   retryVars, uploadVars, warehouseVars, fetchLog, csv_contents>>

\* lines 452-473
UnitNoSheetName ==
    /\ pc = "department"
    /\ di <= Len(departments)
    /\ department_team_sheets # <<>>
    /\ table_id' = get_table_name(view, department, group_config.use_department_prefixes)
    /\ nameCalls' = nameCalls \cup
                      {NameCall(view, department, group_config.use_department_prefixes)}
    /\ ~Truthy(view.sheet_name)
    /\ units' = Append(units, <<vi, view.name, department>>)
    /\ UnitEnd(NewUnit, <<"No sheet name for", view.name>>)
    /\ UNCHANGED <<envVars, mainVars, setup, returned, runVars, vi, departments, ti, all_team_data, team_df,
                   retryVars, uploadVars, warehouseVars, fetchLog, csv_contents>>

\* lines 452-483: the unit passes the structural checks, the team loop starts
UnitBegin ==
    /\ pc = "department"
    /\ di <= Len(departments)
    /\ department_team_sheets # <<>>
    /\ table_id' = get_table_name(view, department, group_config.use_department_prefixes)
    /\ nameCalls' = nameCalls \cup
                      {NameCall(view, department, group_config.use_department_prefixes)}
    /\ Truthy(view.sheet_name)
    /\ all_team_data' = <<>>
    /\ UNCHANGED team_df
    /\ ti' = 1
    /\ pc' = "team"
    /\ units' = Append(units, <<vi, view.name, department>>)
    /\ unit' = [NewUnit EXCEPT
                  !.fetching = TRUE,
                  !.teams = [i \in 1..Len(department_team_sheets) |->
                                department_team_sheets[i].team],
                  !.src = [i \in 1..Len(department_team_sheets) |-> "pending"],
                  !.rows = [i \in 1..Len(department_team_sheets) |-> 0]]
    /\ UNCHANGED <<envVars, mainVars, setup, returned, runVars, results, vi, departments, di,
                   retryVars, uploadVars, warehouseVars, fetchLog, csv_contents>>

(***************************************************************************)
(* process_data_group: the team loop (lines 485-520)                        *)
(***************************************************************************)
team_sheet == department_team_sheets[ti]

InTeamLoop ==
    /\ pc = "team"
    /\ ti <= Len(department_team_sheets)

\* mutant: break in place of continue
TeamSkipBreaks ==
    /\ InTeamLoop
    /\ ~Truthy(team_sheet.sheet_id) \/ IsBlank(team_sheet.sheet_id)
    /\ unit' = [unit EXCEPT !.src[ti] = "skipped",
                            !.log = @ \cup {<<"info", team_sheet.team, "">>}]
    /\ ti' = Len(department_team_sheets) + 1
    /\ UNCHANGED <<envVars, mainVars, setup, pc, returned, runVars, results, vi, departments, di,
                   table_id, all_team_data, team_df, retryVars, uploadVars, warehouseVars,
                   units, fetchLog, csv_contents, nameCalls>>

\* lines 486-489
TeamSkip ==
    /\ InTeamLoop
    /\ ~Truthy(team_sheet.sheet_id) \/ IsBlank(team_sheet.sheet_id)
    /\ unit' = [unit EXCEPT !.src[ti] = "skipped",
                            !.log = @ \cup {<<"info", team_sheet.team, "">>}]
    /\ ti' = ti + 1
    /\ UNCHANGED <<envVars, mainVars, setup, pc, returned, runVars, results, vi, departments, di,
                   table_id, all_team_data, team_df, retryVars, uploadVars, warehouseVars,
                   units, fetchLog, csv_contents, nameCalls>>

\* lines 491-500: export_sheet_to_gcs_with_retry is called
TeamExportCall ==
    /\ InTeamLoop
    /\ ~(~Truthy(team_sheet.sheet_id) \/ IsBlank(team_sheet.sheet_id))
    /\ call' = "export_sheet_to_gcs_with_retry"
    /\ request' = ExportMedia(team_sheet.sheet_id)
    /\ attempt' = 0
    /\ last_exception' = NoException
    /\ wait_time' = 0
    /\ sleeps' = <<>>
    /\ ret' = "running"
    /\ retval' = <<>>
    /\ pc' = "export"
    /\ fetchLog' = fetchLog \cup {<<group_name, vi, team_sheet.team>>}
    /\ UNCHANGED csv_contents
    /\ UNCHANGED <<envVars, mainVars, setup, returned, runVars, groupVars, uploadVars, warehouseVars,
                   unit, units, nameCalls>>

(***************************************************************************)
(* export_sheet_to_gcs_with_retry (lines 66-138) and                        *)
(* fetch_sheet_with_retry (lines 207-245)                                   *)
(***************************************************************************)
\* the CSV export of a sheet: line 1 is the header line, [row |-> i] is the
\* i-th data row; the empty file is the export of an empty sheet
CsvFiles == {[i \in 1..n |-> [row |-> i - 1]] : n \in 0..(MaxRows + 1)}

\* the 'values' of a Sheets API answer: the header row and the data rows
SheetValues == CsvFiles

\* what one attempt ends with
AttemptFailures ==
    {HttpError(s) : s \in HttpStatuses} \cup {OtherException}

\* mutant: every HTTP error is retried
IsRetryableAnyStatus(e) == e.type = "HttpError"

\* lines 120 and 227
IsRetryable(e) == e.type = "HttpError" /\ e.status \in RetryableStatus

\* mutant: the loop makes one pass more than MAX_RETRIES
LoopRunsOnceMore(a) == a <= MAX_RETRIES

LoopRuns(a) == a < MAX_RETRIES

\* mutant: the same delay before every retry
BackoffFlat(a) == RETRY_DELAY_BASE

\* lines 121, 129, 228 and 236: RETRY_DELAY_BASE * (2 ** attempt), nothing
\* random is added
Backoff(a) == RETRY_DELAY_BASE * Pow2(a)

\* one pass of the loop body, lines 84-134
ExportAttempt ==
    /\ call = "export_sheet_to_gcs_with_retry"
    /\ ret = "running"
    /\ LoopRuns(attempt)
    /\ \/ \E file \in CsvFiles :
            \* lines 86-116: exported, uploaded to the bucket, blob name returned
            /\ ret' = "returned"
            /\ retval' = file
            /\ UNCHANGED <<attempt, last_exception, wait_time, sleeps>>
       \/ \E e \in AttemptFailures :
            /\ last_exception' = e
            /\ IF e.type = "HttpError" /\ ~IsRetryable(e)
               THEN \* lines 124-126
                    /\ ret' = "raised"
                    /\ UNCHANGED <<attempt, wait_time, sleeps>>
               ELSE \* lines 120-123 and 127-134
                    /\ wait_time' = Backoff(attempt)
                    /\ sleeps' = IF e.type = "HttpError" \/ attempt < MAX_RETRIES - 1
                                 THEN Append(sleeps, wait_time')
                                 ELSE sleeps
                    /\ attempt' = attempt + 1
                    /\ ret' = "running"
            /\ UNCHANGED retval
    /\ UNCHANGED <<envVars, mainVars, setup, pc, returned, runVars, groupVars, call, request, uploadVars,
                   warehouseVars, historyVars>>

\* one pass of the loop body, lines 213-241
FetchAttempt ==
    /\ call = "fetch_sheet_with_retry"
    /\ ret = "running"
    /\ LoopRuns(attempt)
    /\ \/ \E values \in SheetValues :
            \* lines 215-224
            /\ ret' = "returned"
            /\ retval' = values
            /\ UNCHANGED <<attempt, last_exception, wait_time, sleeps>>
       \/ \E e \in AttemptFailures :
            /\ last_exception' = e
            /\ IF e.type = "HttpError" /\ ~IsRetryable(e)
               THEN \* lines 231-233
                    /\ ret' = "raised"
                    /\ UNCHANGED <<attempt, wait_time, sleeps>>
               ELSE \* lines 227-230 and 234-241
                    /\ wait_time' = Backoff(attempt)
                    /\ sleeps' = IF e.type = "HttpError" \/ attempt < MAX_RETRIES - 1
                                 THEN Append(sleeps, wait_time')
                                 ELSE sleeps
                    /\ attempt' = attempt + 1
                    /\ ret' = "running"
            /\ UNCHANGED retval
    /\ UNCHANGED <<envVars, mainVars, setup, pc, returned, runVars, groupVars, call, request, uploadVars,
                   warehouseVars, historyVars>>

\* mutant: when the attempts are used up the loop starts again
RetryExhaustedRestarts ==
    /\ call # "none"
    /\ ret = "running"
    /\ ~LoopRuns(attempt)
    /\ attempt' = 0
    /\ sleeps' = <<>>
    /\ UNCHANGED <<envVars, mainVars, setup, pc, returned, runVars, groupVars, call, request,
                   last_exception, wait_time, ret, retval, uploadVars, warehouseVars,
                   historyVars>>

\* lines 136-138 and 243-245: the loop is over, the last exception is raised
RetryExhausted ==
    /\ call # "none"
    /\ ret = "running"
    /\ ~LoopRuns(attempt)
    /\ ret' = IF last_exception # NoException THEN "raised" ELSE "returned"
    /\ UNCHANGED <<envVars, mainVars, setup, pc, returned, runVars, groupVars, call, request,
                   attempt, last_exception, wait_time, sleeps, retval, uploadVars,
                   warehouseVars, historyVars>>

\* the frame of the retrying operation is left
RetryIdle ==
    /\ call' = "none"
    /\ request' = NoRequest
    /\ attempt' = 0
    /\ last_exception' = NoException
    /\ wait_time' = 0
    /\ sleeps' = <<>>
    /\ ret' = "idle"
    /\ retval' = <<>>

(***************************************************************************)
(* process_data_group lines 502-520 with process_team_sheet_from_gcs        *)
(* (lines 140-205)                                                          *)
(***************************************************************************)
\* lines 166-201 on the rows: the first line is the header, every data row
\* gets the provenance columns (lines 173-175); these are never null, so
\* dropna(how='all') (line 194) drops no row
NormalizeCsv(file, sheet) ==
    [i \in 1..(Len(file) - 1) |->
        [googlesheet_name |-> <<"Strang", sheet.team>>,
         department |-> sheet.department,
         row |-> file[i + 1].row]]

\* mutant: the exception of one team ends the unit
ExportFailedAborts ==
    /\ pc = "export"
    /\ ret = "raised"
    /\ UnitEnd([unit EXCEPT !.src[ti] = "failed"],
               <<"Error processing", department_team_sheets[ti].team>>)
    /\ RetryIdle
    /\ UNCHANGED <<envVars, mainVars, setup, returned, runVars, vi, departments, table_id, ti,
                   all_team_data, team_df, uploadVars, warehouseVars, units, fetchLog, csv_contents,
                   nameCalls>>

\* mutant: the export that raised is never closed
ExportFailedLeaks ==
    /\ pc = "export"
    /\ ret = "raised"
    /\ ti' = ti + 1
    /\ pc' = "team"
    /\ UNCHANGED <<envVars, mainVars, setup, returned, runVars, results, vi, departments, di,
                   table_id, all_team_data, team_df, retryVars, uploadVars, warehouseVars,
                   historyVars>>

\* mutant: the exception is swallowed without a log record
ExportFailedSilent ==
    /\ pc = "export"
    /\ ret = "raised"
    /\ unit' = [unit EXCEPT !.src[ti] = "failed"]
    /\ ti' = ti + 1
    /\ pc' = "team"
    /\ RetryIdle
    /\ UNCHANGED <<envVars, mainVars, setup, returned, runVars, results, vi, departments, di,
                   table_id, all_team_data, team_df, uploadVars, warehouseVars, units,
                   fetchLog, csv_contents, nameCalls>>

\* lines 518-520: the export raised, the team is dropped
ExportFailed ==
    /\ pc = "export"
    /\ ret = "raised"
    /\ unit' = [unit EXCEPT
                  !.src[ti] = "failed",
                  !.log = @ \cup {<<"error", team_sheet.team, last_exception.type>>}]
    /\ ti' = ti + 1
    /\ pc' = "team"
    /\ RetryIdle
    /\ UNCHANGED <<envVars, mainVars, setup, returned, runVars, results, vi, departments, di,
                   table_id, all_team_data, team_df, uploadVars, warehouseVars, units,
                   fetchLog, csv_contents, nameCalls>>

\* lines 502-517: the blob is read back and normalized
ProcessFromGcs ==
    /\ pc = "export"
    /\ ret = "returned"
    /\ \E readable \in BOOLEAN :
         IF ~readable \/ retval = <<>>
         THEN \* lines 203-205: the download or pd.read_csv raised
              /\ unit' = [unit EXCEPT
                            !.src[ti] = "failed",
                            !.log = @ \cup {<<"error", team_sheet.team, "read">>}]
              /\ team_df' = ReturnedOnError
              /\ UNCHANGED all_team_data
         ELSE IF Len(retval) = 1
         THEN \* lines 168-170: df.empty
              /\ unit' = [unit EXCEPT !.src[ti] = "nodata",
                                      !.log = @ \cup {<<"warning", team_sheet.team, "">>}]
              /\ team_df' = NoFrame
              /\ UNCHANGED all_team_data
         ELSE \* lines 172-201 and 513-514; the columns are left out here
              /\ team_df' = Frame(<<>>, NormalizeCsv(retval, team_sheet))
              /\ all_team_data' = Append(all_team_data, team_df'.rows)
              /\ unit' = [unit EXCEPT !.src[ti] = "usable",
                                      !.rows[ti] = Len(retval) - 1]
    /\ ti' = ti + 1
    /\ pc' = "team"
    /\ RetryIdle
    /\ UNCHANGED <<envVars, mainVars, setup, returned, runVars, results, vi, departments, di,
                   table_id, uploadVars, warehouseVars, units, fetchLog, csv_contents, nameCalls>>

(***************************************************************************)
(* process_data_group: merge and load (lines 522-553)                       *)
(***************************************************************************)
\* mutant: the loop is left after the first team
TeamLoopOverEarly ==
    /\ pc = "team"
    /\ ti > 1

TeamLoopOver ==
    /\ pc = "team"
    /\ ti > Len(department_team_sheets)

\* mutant: the unit without data ends without an entry
NoDataSilent ==
    /\ TeamLoopOver
    /\ all_team_data = <<>>
    /\ unit' = [unit EXCEPT !.done = TRUE]
    /\ di' = di + 1
    /\ pc' = "department"
    /\ UNCHANGED <<envVars, mainVars, setup, returned, runVars, results, vi, departments,
                   table_id, ti, all_team_data, team_df, retryVars, uploadVars, warehouseVars,
                   units, fetchLog, csv_contents, nameCalls>>

\* lines 550-553
NoDataCollected ==
    /\ TeamLoopOver
    /\ all_team_data = <<>>
    /\ UnitEnd(unit, <<"No data collected for", view.name, "-", department>>)
    /\ UNCHANGED <<envVars, mainVars, setup, returned, runVars, vi, departments, table_id, ti,
                   all_team_data, team_df, retryVars, uploadVars, warehouseVars, units,
                   fetchLog, csv_contents, nameCalls>>

\* mutant: the test of line 522 is missing
ConcatAlways ==
    /\ TeamLoopOver
    /\ combined_df' = Flatten(all_team_data)
    /\ unit' = [unit EXCEPT !.merged = TRUE, !.upload = TRUE,
                            !.arg = Flatten(all_team_data)]
    /\ pc' = "upload_stage"
    /\ UNCHANGED <<envVars, mainVars, setup, returned, runVars, results, vi, departments, di,
                   table_id, ti, all_team_data, team_df, retryVars, staged, warehouseVars,
                   units, fetchLog, csv_contents, nameCalls>>

\* lines 522-538 and, when pd.concat raises, 546-549
Concat ==
    /\ TeamLoopOver
    /\ all_team_data # <<>>
    /\ \E ok \in BOOLEAN :
         IF ok
         THEN /\ combined_df' = Flatten(all_team_data)
              /\ unit' = [unit EXCEPT !.merged = TRUE, !.upload = TRUE,
                                      !.arg = Flatten(all_team_data)]
              /\ pc' = "upload_stage"
              /\ UNCHANGED <<results, di>>
         ELSE /\ UnitEnd([unit EXCEPT !.merge_raised = TRUE],
                         <<"Error processing combined data for", view.name, "-",
                           department, ":", "concat failed">>)
              /\ UNCHANGED combined_df
    /\ UNCHANGED <<envVars, mainVars, setup, returned, runVars, vi, departments, table_id, ti,
                   all_team_data, team_df, retryVars, staged, warehouseVars, units, fetchLog, csv_contents,
                   nameCalls>>

(***************************************************************************)
(* upload_to_bigquery (lines 297-365)                                       *)
(***************************************************************************)
dataset_id == group_config.dataset_id

\* mutant: a failed upload leaves the department loop of the view
UploadFailBreaks(u, cause) ==
    /\ results' = Append(results, <<"Error uploading to BigQuery:", cause>>)
    /\ unit' = [u EXCEPT !.done = TRUE]
    /\ di' = Len(departments) + 1
    /\ pc' = "department"

\* lines 363-365 and 539: the error text is the outcome of the unit
UploadFail(u, cause) ==
    UnitEnd(u, <<"Error uploading to BigQuery:", cause>>)

\* line 321: one JSON line per row
ToJsonl(df) == [i \in 1..Len(df) |-> [json |-> df[i]]]
\* the rows the load job reads from the staged lines
FromJsonl(lines) == [i \in 1..Len(lines) |-> lines[i].json]

\* lines 299-325
StageToGcs ==
    /\ pc = "upload_stage"
    /\ \E ok \in BOOLEAN :
         IF ok
         THEN /\ staged' = ToJsonl(combined_df)
              /\ unit' = [unit EXCEPT !.staging = TRUE]
              /\ pc' = "upload_dataset"
              /\ UNCHANGED <<results, di>>
         ELSE /\ UploadFail([unit EXCEPT !.staging = TRUE, !.failure = "staging"],
                            "staging write failed")
              /\ UNCHANGED staged
    /\ UNCHANGED <<envVars, mainVars, setup, returned, runVars, vi, departments, table_id, ti,
                   all_team_data, team_df, retryVars, combined_df, warehouseVars, units,
                   fetchLog, csv_contents, nameCalls>>

\* lines 327-337.  The warehouse is shared with other invocations of the
\* function: one of them may create the dataset between get_dataset (line
\* 330) and create_dataset (line 336), which is called without exists_ok and
\* then raises Conflict.
GetOrCreateDataset ==
    /\ pc = "upload_dataset"
    /\ \E get_ok, create_ok, raced \in BOOLEAN :
         IF get_ok /\ dataset_id \in datasets
         THEN \* lines 330-331
              /\ pc' = "upload_load"
              /\ UNCHANGED <<datasets, unit, results, di>>
         ELSE IF raced /\ dataset_id \notin datasets
         THEN \* lines 332-336 and 363-365: the other creator won
              /\ datasets' = datasets \cup {dataset_id}
              /\ UploadFail([unit EXCEPT !.failure = "conflict"], "dataset already exists")
         ELSE IF create_ok /\ dataset_id \notin datasets
         THEN \* lines 332-337
              /\ datasets' = datasets \cup {dataset_id}
              /\ pc' = "upload_load"
              /\ UNCHANGED <<unit, results, di>>
         ELSE \* create_dataset raised (the dataset exists, or the call failed)
              /\ UploadFail([unit EXCEPT !.failure = "dataset"], "create_dataset failed")
              /\ UNCHANGED datasets
    /\ UNCHANGED <<envVars, mainVars, setup, returned, runVars, vi, departments, table_id, ti,
                   all_team_data, team_df, retryVars, uploadVars, tables, lastLoad, units,
                   fetchLog, csv_contents, nameCalls>>

\* mutant: WRITE_APPEND
WriteAppend(old, new) == old \o new

\* line 341: WRITE_TRUNCATE
WriteDisposition(old, new) == new

\* the effect of a completed load job on the warehouse (lines 339-355)
LoadTableFromUri(tbls, key, lines) ==
    [k \in DOMAIN tbls \cup {key} |->
        IF k = key
        THEN WriteDisposition(IF key \in DOMAIN tbls THEN tbls[key] ELSE <<>>,
                              FromJsonl(lines))
        ELSE tbls[k]]

Recorded(f, key, value) ==
    [k \in DOMAIN f \cup {key} |-> IF k = key THEN value ELSE f[k]]

table_ref == TableKey(dataset_id, table_id)

\* lines 339-358: the job ends within the 600 seconds, fails, or is still
\* running when load_job.result(timeout=600) gives up; a job that is still
\* running may complete afterwards
LoadJob ==
    /\ pc = "upload_load"
    /\ \E outcome \in {"done", "failed", "timeout", "timeout_then_done"} :
         /\ IF outcome \in {"done", "timeout_then_done"}
            THEN /\ tables' = LoadTableFromUri(tables, table_ref, staged)
                 /\ lastLoad' = Recorded(lastLoad, table_ref,
                                          [rows |-> combined_df,
                                           before |-> IF table_ref \in DOMAIN tables
                                                      THEN tables[table_ref] ELSE <<>>,
                                           by |-> (IF table_ref \in DOMAIN lastLoad
                                                   THEN lastLoad[table_ref].by ELSE {})
                                                  \cup {<<group_name, vi, department>>}])
            ELSE UNCHANGED <<tables, lastLoad>>
         /\ IF outcome = "done"
            THEN /\ pc' = "upload_get_table"
                 /\ unit' = [unit EXCEPT !.load = TRUE]
                 /\ UNCHANGED <<results, di>>
            ELSE UploadFail([unit EXCEPT !.load = TRUE,
                                         !.failure = IF outcome = "failed"
                                                     THEN "job" ELSE "timeout"],
                            IF outcome = "failed" THEN "load job failed"
                            ELSE "timeout")
    /\ UNCHANGED <<envVars, mainVars, setup, returned, runVars, vi, departments, table_id, ti,
                   all_team_data, team_df, retryVars, uploadVars, datasets, units, fetchLog, csv_contents,
                   nameCalls>>

\* lines 360-361
GetTable ==
    /\ pc = "upload_get_table"
    /\ \E ok \in BOOLEAN :
         IF ok
         THEN UnitEnd(unit, <<"Loaded", ToString(Len(tables[table_ref])), "rows into",
                              config.project_id, dataset_id>> \o table_id)
         ELSE UploadFail([unit EXCEPT !.failure = "get_table"], "get_table failed")
    /\ UNCHANGED <<envVars, mainVars, setup, returned, runVars, vi, departments, table_id, ti,
                   all_team_data, team_df, retryVars, uploadVars, warehouseVars, units,
                   fetchLog, csv_contents, nameCalls>>

(***************************************************************************)
(* Specification of a run of import_team_capacity                           *)
(***************************************************************************)
Init == InitRun

Next ==
    \/ MainEntry
    \/ MainReturn
    \/ ReadConfig
    \/ InitCredentials
    \/ FinishRun
    \/ SkipItem
    \/ GroupDisabled
    \/ GroupNoDataset
    \/ EnterGroup
    \/ GroupReturn
    \/ ViewBegin
    \/ ViewEnd
    \/ UnitNoTeams
    \/ UnitNoSheetName
    \/ UnitBegin
    \/ TeamSkip
    \/ TeamExportCall
    \/ ExportAttempt
    \/ RetryExhausted
    \/ ExportFailed
    \/ ProcessFromGcs
    \/ NoDataCollected
    \/ Concat
    \/ StageToGcs
    \/ GetOrCreateDataset
    \/ LoadJob
    \/ GetTable

Spec == Init /\ [][Next]_vars

\* the run is one sequential thread: as long as a step can be taken one is
\* taken.  Every call to a service is a step that returns or raises; the
\* wait for the load job is cut off by result(timeout=600) (line 358).
\* the runs the liveness properties are stated for: the first group of
\* ConfigShared alone, the other configurations whole, on an empty warehouse
InitLive ==
    /\ config \in Configs
    /\ target_group = IF config = ConfigShared THEN "A" ELSE ""
    /\ event = Event(Missing)
    /\ pc = "main"
    /\ InitLocals
    /\ datasets = {}
    /\ tables = <<>>

SpecLive == InitLive /\ [][Next]_vars /\ WF_vars(Next)

(***************************************************************************)
(* Specification of main called with every kind of trigger event, on an     *)
(* empty warehouse                                                          *)
(***************************************************************************)
InitMain ==
    /\ config \in Configs
    /\ target_group \in {"", "A"}
    /\ event \in Events
    /\ pc = "main"
    /\ InitLocals
    /\ datasets = {}
    /\ tables = <<>>

SpecMain == InitMain /\ [][Next]_vars

(***************************************************************************)
(* Specification of the two retrying operations, each called on its own:    *)
(* export_sheet_to_gcs_with_retry as process_data_group calls it (line 493) *)
(* and fetch_sheet_with_retry as process_team_sheet calls it (line 250)     *)
(***************************************************************************)
InitRetry ==
    /\ config = ConfigShared
    /\ target_group = ""
    /\ event = Event(Missing)
    /\ pc = "caller"
    /\ InitLocals
    /\ datasets = {}
    /\ tables = <<>>

\* lines 493-500 / line 250: the operation is entered
CallRetrying ==
    /\ pc = "caller"
    /\ ret = "idle"
    /\ \/ /\ call' = "export_sheet_to_gcs_with_retry"
          /\ request' = ExportMedia(TeamsA("s3")[1].sheet_id)
       \/ /\ call' = "fetch_sheet_with_retry"
          /\ request' = ValuesGet(TeamsA("s3")[1], Capacity.sheet_name, "A:Z")
    /\ attempt' = 0
    /\ last_exception' = NoException
    /\ wait_time' = 0
    /\ sleeps' = <<>>
    /\ ret' = "running"
    /\ retval' = <<>>
    /\ UNCHANGED <<envVars, mainVars, setup, pc, returned, runVars, groupVars, uploadVars,
                   warehouseVars, historyVars>>

\* the caller has the result, or the exception (lines 518 and 293)
CallerResumes ==
    /\ pc = "caller"
    /\ ret \in {"returned", "raised"}
    /\ RetryIdle
    /\ UNCHANGED <<envVars, mainVars, setup, pc, returned, runVars, groupVars, uploadVars,
                   warehouseVars, historyVars>>

NextRetry ==
    \/ CallRetrying
    \/ ExportAttempt
    \/ FetchAttempt
    \/ RetryExhausted
    \/ CallerResumes

SpecRetry == InitRetry /\ [][NextRetry]_vars

(***************************************************************************)
(* Specification of the data path of one unit at the level of cells:        *)
(* process_team_sheet_from_gcs (lines 140-205) on the exported CSV text of   *)
(* each team, then pd.concat (line 525).  A frame is a record of its column  *)
(* names in order and its rows, each row a function from the column names    *)
(* to cell values.  The exports are taken as readable here; the headers of   *)
(* the sample files hold no name twice and no name a mapping renames to.     *)
(***************************************************************************)
\* texts that pd.read_csv reads as NaN
NaTexts == {"", "NA", "NaN", "nan", "NULL", "null", "N/A", "n/a", "#N/A"}

Csv(header, rows) == [header |-> header, rows |-> rows]
\* blob.download_as_text() of a blob without content
EmptyFile == Csv(<<>>, <<>>)

\* the exported files of the data path.  Their cells are texts that
\* pd.read_csv reads as text or as NA, so that every column has dtype
\* object; numerals, which it would parse into numbers, are left out.
CsvSamples ==
    { EmptyFile,
      Csv(<<"Std">>, <<>>),
      Csv(<<"Std">>, << <<"8h">> >>),
      Csv(<<"Std", "KW">>, << <<"8h", "KW1">>, <<"", "KW2">> >>),
      Csv(<<"KW", "Name">>, << <<"KW1", "nichts gefunden">> >>),
      Csv(<<"Name", "Std">>, << <<" ", "">>, <<"#VALUE!", "4h">> >>),
      Csv(<<"Name", "Std">>, << <<"None", "8h">>, <<"Ann", "nan">> >>) }

PositionOf(columns, c) == CHOOSE i \in 1..Len(columns) : columns[i] = c

\* line 166: pd.read_csv(io.StringIO(csv_content))
read_csv(csv) ==
    Frame(csv.header,
          [i \in 1..Len(csv.rows) |->
              [c \in SeqRange(csv.header) |->
                  LET text == csv.rows[i][PositionOf(csv.header, c)]
                  IN  IF text \in NaTexts THEN Null ELSE text]])

\* df[c] = value: a new column goes last, an existing one keeps its place
SetColumn(df, c, value) ==
    LET columns == IF c \in SeqRange(df.columns) THEN df.columns
                   ELSE Append(df.columns, c)
    IN  Frame(columns,
              [i \in 1..Len(df.rows) |->
                  [d \in SeqRange(columns) |-> IF d = c THEN value ELSE df.rows[i][d]]])

\* line 173: f"Strang {team_sheet['team']}" as one text
StrangName(team) ==
    IF team = "T1" THEN "Strang T1"
    ELSE IF team = "T2" THEN "Strang T2"
    ELSE "Strang T8"

\* lines 173-175
AddMetadata(df, sheet) ==
    SetColumn(SetColumn(SetColumn(df, "googlesheet_name", StrangName(sheet.team)),
                        "department", sheet.department),
              "import_timestamp", "now")

\* lines 179-180: the set of pairs mapping renames the columns it names
RenamedTo(mapping, c) ==
    IF \E m \in mapping : m[1] = c
    THEN (CHOOSE m \in mapping : m[1] = c)[2]
    ELSE c

RenameColumns(df, mapping) ==
    LET columns == [i \in 1..Len(df.columns) |-> RenamedTo(mapping, df.columns[i])]
    IN  Frame(columns,
              [i \in 1..Len(df.rows) |->
                  [d \in SeqRange(columns) |->
                      df.rows[i][df.columns[PositionOf(columns, d)]]]])

IsWhitespace(text) == text \in {"", " ", "  "}

\* lines 188-189 and 193: the markers and the whitespace-only cells become None
ReplaceMarkers(df) ==
    Frame(df.columns,
          [i \in 1..Len(df.rows) |->
              [c \in SeqRange(df.columns) |->
                  LET v == df.rows[i][c]
                  IN  IF v \in {"nichts gefunden", "#VALUE!"} \/ IsWhitespace(v)
                      THEN Null ELSE v]])

IsAllNull(row) == \A c \in DOMAIN row : row[c] = Null

\* line 194: df.dropna(how='all')
DropAllNull(df) ==
    LET NotAllNull(row) == ~IsAllNull(row)
    IN  Frame(df.columns, SelectSeq(df.rows, NotAllNull))

\* lines 157-205: the empty text makes read_csv raise (handler 203-205), a
\* file without data rows gives None at line 170
process_team_sheet_from_gcs(csv, sheet, column_mappings) ==
    IF csv = EmptyFile THEN ReturnedOnError
    ELSE LET df == read_csv(csv)
         IN  IF df.rows = <<>> THEN NoFrame
             ELSE DropAllNull(ReplaceMarkers(
                     RenameColumns(AddMetadata(df, sheet), column_mappings)))

RECURSIVE UnionColumns(_)
\* the columns of the frames, each at its first place
UnionColumns(frames) ==
    IF frames = <<>> THEN <<>>
    ELSE LET before == UnionColumns(SubSeq(frames, 1, Len(frames) - 1))
             IsNew(c) == c \notin SeqRange(before)
         IN  before \o SelectSeq(frames[Len(frames)].columns, IsNew)

RECURSIVE CommonColumns(_)
CommonColumns(frames) ==
    IF Len(frames) = 1 THEN frames[1].columns
    ELSE LET before == CommonColumns(SubSeq(frames, 1, Len(frames) - 1))
             IsShared(c) == c \in SeqRange(frames[Len(frames)].columns)
         IN  SelectSeq(before, IsShared)

Reindex(df, columns) ==
    [i \in 1..Len(df.rows) |->
        [c \in SeqRange(columns) |->
            IF c \in SeqRange(df.columns) THEN df.rows[i][c] ELSE Null]]

\* mutant: pd.concat(..., join='inner')
concat_inner(frames) ==
    LET columns == CommonColumns(frames)
    IN  Frame(columns,
              Flatten([k \in 1..Len(frames) |-> Reindex(frames[k], columns)]))

\* line 525: pd.concat(all_team_data, ignore_index=True)
concat(frames) ==
    LET columns == UnionColumns(frames)
    IN  Frame(columns,
              Flatten([k \in 1..Len(frames) |-> Reindex(frames[k], columns)]))

\* the team sheets and the view of the unit of the data path
DataTeams ==
    << TeamSheet("T1", "Paid Media", "s1"),
       TeamSheet("T2", "Paid Media", "s2"),
       TeamSheet("T8", "Paid Media", "s8") >>
DataView == Capacity

InitData ==
    /\ config = ConfigShared
    /\ target_group = ""
    /\ event = Event(Missing)
    /\ pc = "data_team"
    /\ InitLocals
    /\ datasets = {}
    /\ tables = <<>>

\* lines 502-514: the file of the team is read; a frame that is not None and
\* not empty joins all_team_data
DataRead ==
    /\ pc = "data_team"
    /\ ti <= Len(DataTeams)
    /\ \E csv \in CsvSamples :
          /\ team_df' = process_team_sheet_from_gcs(csv, DataTeams[ti], DataView.columns)
          /\ all_team_data' = IF ~team_df'.none /\ team_df'.rows # <<>>
                               THEN Append(all_team_data, team_df')
                               ELSE all_team_data
          /\ csv_contents' = IF ~team_df'.none /\ team_df'.rows # <<>>
                              THEN Append(csv_contents, csv)
                              ELSE csv_contents
    /\ ti' = ti + 1
    /\ UNCHANGED <<envVars, mainVars, setup, pc, returned, runVars, results, vi, departments, di,
                   table_id, retryVars, uploadVars, warehouseVars, unit, units,
                   fetchLog, nameCalls>>

\* lines 522-526
DataConcat ==
    /\ pc = "data_team"
    /\ ti > Len(DataTeams)
    /\ all_team_data # <<>>
    /\ combined_df' = concat(all_team_data)
    /\ pc' = "data_merged"
    /\ UNCHANGED <<envVars, mainVars, setup, returned, runVars, groupVars, retryVars, staged,
                   warehouseVars, historyVars>>

\* lines 550-553
DataNoData ==
    /\ pc = "data_team"
    /\ ti > Len(DataTeams)
    /\ all_team_data = <<>>
    /\ results' = Append(results, <<"No data collected for", DataView.name, "-",
                                     DataTeams[1].department>>)
    /\ pc' = "data_nodata"
    /\ UNCHANGED <<envVars, mainVars, setup, returned, runVars, vi, departments, di, table_id, ti,
                   all_team_data, team_df, retryVars, uploadVars, warehouseVars, historyVars>>

\* line 301: df.astype(str) writes NaN as "nan" and None as "None"; the
\* texts stay as they are
astype_str(df) ==
    Frame(df.columns,
          [i \in 1..Len(df.rows) |->
              [c \in SeqRange(df.columns) |->
                  IF df.rows[i][c] = Null THEN "nan" ELSE df.rows[i][c]]])

\* lines 301-305: all cells as text, then the whitespace-only texts and the
\* texts "None" and "nan" become None
ReplaceForUpload(df) ==
    Frame(df.columns,
          [i \in 1..Len(df.rows) |->
              [c \in SeqRange(df.columns) |->
                  LET v == astype_str(df).rows[i][c]
                  IN  IF IsWhitespace(v) \/ v \in {"None", "nan"} THEN Null ELSE v]])

\* lines 299-325: the merged frame is written to the staging blob
DataStage ==
    /\ pc = "data_merged"
    /\ staged' = ToJsonl(ReplaceForUpload(combined_df).rows)
    /\ pc' = "data_staged"
    /\ UNCHANGED <<envVars, mainVars, setup, returned, runVars, groupVars, retryVars,
                   combined_df, warehouseVars, historyVars>>

\* lines 339-358: the load job writes the staged lines to the table, every
\* column a STRING
DataLoad ==
    /\ pc = "data_staged"
    /\ tables' = LoadTableFromUri(tables, TableKey("ds_a", get_table_name(
                      DataView, DataTeams[1].department, TRUE)), staged)
    /\ pc' = "data_loaded"
    /\ UNCHANGED <<envVars, mainVars, setup, returned, runVars, groupVars, retryVars,
                   uploadVars, datasets, lastLoad, historyVars>>

NextData ==
    \/ DataRead
    \/ DataConcat
    \/ DataNoData
    \/ DataStage
    \/ DataLoad

SpecData == InitData /\ [][NextData]_vars

(***************************************************************************)
(* Properties                                                               *)
(***************************************************************************)
LastEntry == results[Len(results)]

SourcesIn(u, status) == {i \in DOMAIN u.src : u.src[i] = status}

Uploading == pc \in {"upload_stage", "upload_dataset", "upload_load", "upload_get_table"}

\* the rows of dataset df that carry the provenance of team
RowsOf(df, team) ==
    LET FromTeam(r) == r.googlesheet_name = <<"Strang", team>>
    IN  SelectSeq(df, FromTeam)

RECURSIVE Sum(_, _)
Sum(f, n) == IF n = 0 THEN 0 ELSE f[n] + Sum(f, n - 1)

\* C1: a unit that went through the team loop and got a usable dataset from
\* none of its sources (each was skipped, gave no data or failed) ends with
\* the entry "No data collected for <view> - <department>", and neither the
\* staging write nor the load job is ever started for it.
C1_NoDataNoLoad ==
    /\ (unit.done /\ unit.fetching /\ SourcesIn(unit, "usable") = {}) =>
          /\ LastEntry = <<"No data collected for", unit.view, "-", unit.department>>
          /\ ~unit.upload /\ ~unit.staging /\ ~unit.load
    /\ (Uploading \/ unit.upload) => SourcesIn(unit, "usable") # {}

C1_Witness ==
    /\ unit.done /\ unit.fetching
    /\ SourcesIn(unit, "usable") = {}
    /\ SourcesIn(unit, "failed") # {}
    /\ SourcesIn(unit, "nodata") # {}
    /\ LastEntry[1] = "No data collected for"

\* C2: when at least one source of a unit is usable, failed sources do not
\* end the unit: the dataset handed to upload_to_bigquery holds, for every
\* usable source, exactly the rows that source yielded (in order) and no row
\* of any other source, the staged lines are these rows, and a load job that
\* completes leaves exactly these rows in the table.
C2_PartialFailureLoads ==
    /\ (unit.done /\ unit.fetching /\ SourcesIn(unit, "usable") # {}
          /\ ~unit.merge_raised) => (unit.upload /\ unit.staging)
    /\ unit.upload =>
          /\ \A i \in DOMAIN unit.src :
                RowsOf(unit.arg, unit.teams[i]) =
                    IF unit.src[i] = "usable"
                    THEN [k \in 1..unit.rows[i] |->
                            LoadedRow(unit.teams[i], unit.department, k)]
                    ELSE <<>>
          /\ Len(unit.arg) = Sum(unit.rows, Len(unit.rows))
    /\ pc \in {"upload_dataset", "upload_load"} => FromJsonl(staged) = unit.arg
    /\ pc = "upload_get_table" => tables[table_ref] = unit.arg

C2_Witness ==
    /\ unit.done
    /\ SourcesIn(unit, "usable") # {}
    /\ \E i \in DOMAIN unit.src :
          /\ unit.src[i] = "failed"
          /\ <<"error", unit.teams[i], "Exception">> \in unit.log
    /\ LastEntry[1] = "Loaded"
    /\ LastEntry[2] = ToString(MaxRows)

\* C3: a retrying operation makes at most MAX_RETRIES attempts; it returns
\* only the result of an attempt that succeeded after fewer than MAX_RETRIES
\* failed attempts; and when it raises a retryable HTTP error or another
\* exception that is not an HTTP error, it has made exactly MAX_RETRIES
\* attempts.
C3_RetryCeiling ==
    /\ attempt <= MAX_RETRIES
    /\ ret = "returned" => (attempt < MAX_RETRIES /\ retval \in CsvFiles)
    /\ ret = "raised" =>
          /\ last_exception # NoException
          /\ (IsRetryable(last_exception) \/ last_exception = OtherException)
                => attempt = MAX_RETRIES
    /\ (ret = "running" /\ attempt > 0) =>
          (IsRetryable(last_exception) \/ last_exception = OtherException)

C3_Witness ==
    /\ call = "fetch_sheet_with_retry"
    /\ ret = "raised"
    /\ attempt = MAX_RETRIES
    /\ IsRetryable(last_exception)

SetupMessage(how) ==
    IF how = "config_unreadable" THEN <<"Failed to read config file">>
    ELSE IF how = "config_no_object" THEN <<"Error in data import:", "no attribute get">>
    ELSE IF how = "config_incomplete"
    THEN <<"Missing project_id or staging_bucket in config">>
    ELSE <<"Failed to initialize credentials">>

NothingAttempted ==
    /\ groups_processed = 0
    /\ units = <<>> /\ unit = NoUnit
    /\ fetchLog = {}
    /\ staged = <<>>
    /\ lastLoad = <<>>

\* C4: a run never ends otherwise than by returning its list of outcome
\* strings (wherever it stands, either it has returned or it can go on), and
\* when the configuration cannot be read or used or the credentials cannot
\* be obtained it returns exactly one entry that names the cause, no group
\* having been entered, no export started, nothing staged and nothing loaded.
C4_AlwaysReturns ==
    /\ pc = "main_done" \/ ENABLED Next
    /\ (pc = "done" /\ setup = "ok") => returned = all_results
    /\ setup \notin {"pending", "ok"} =>
          /\ pc \in {"done", "main_done"}
          /\ returned = <<SetupMessage(setup)>>
          /\ NothingAttempted

C4_Witness ==
    /\ pc = "done"
    /\ setup = "no_credentials"
    /\ config = ConfigShared
    /\ returned = << <<"Failed to initialize credentials">> >>

RECURSIVE SumSeq(_)
SumSeq(ns) == IF ns = <<>> THEN 0 ELSE Head(ns) + SumSeq(Tail(ns))

\* the (view, department) units the loops of lines 441-452 visit in a group
UnitsOfView(v, g) ==
    IF v.department # Missing THEN 1
    ELSE Cardinality({g.team_sheets[i].department : i \in 1..Len(g.team_sheets)})

ExpectedUnits(g) ==
    SumSeq([i \in 1..Len(g.aggregated_views) |-> UnitsOfView(g.aggregated_views[i], g)])

EntriesOfItem(item) ==
    IF ~IsDataGroup(item.value) \/ (Truthy(target_group) /\ item.key # target_group)
    THEN 0
    ELSE IF ~item.value.enabled \/ ~Truthy(item.value.dataset_id) THEN 1
    ELSE ExpectedUnits(item.value)

IsEntered(item) ==
    /\ IsDataGroup(item.value)
    /\ ~(Truthy(target_group) /\ item.key # target_group)

ExpectedEntries ==
    IF \E i \in 1..Len(config.items) : IsEntered(config.items[i])
    THEN SumSeq([i \in 1..Len(config.items) |-> EntriesOfItem(config.items[i])])
    ELSE 1

FailureText(f) ==
    IF f = "staging" THEN "staging write failed"
    ELSE IF f = "dataset" THEN "create_dataset failed"
    ELSE IF f = "conflict" THEN "dataset already exists"
    ELSE IF f = "job" THEN "load job failed"
    ELSE IF f = "timeout" THEN "timeout"
    ELSE "get_table failed"

\* C5: a unit whose upload failed (staging write, dataset creation, load job
\* error, load timeout, reading the table back) ends with the entry "Error
\* uploading to BigQuery: <cause>", and the run goes on: when it returns,
\* every unit of every group it entered has its entry, whatever failed.
C5_LoadFailureIsolated ==
    /\ (unit.done /\ unit.failure # "") =>
          LastEntry = <<"Error uploading to BigQuery:", FailureText(unit.failure)>>
    /\ (pc = "done" /\ setup = "ok") => Len(returned) = ExpectedEntries

C5_Witness ==
    /\ pc = "done"
    /\ config = ConfigShared /\ target_group = ""
    /\ Len(returned) = 4
    /\ returned[1] = <<"Error uploading to BigQuery:", "timeout">>
    /\ returned[3][1] = "Loaded"
    /\ returned[4] = <<"Error uploading to BigQuery:", "load job failed">>

\* C6: a table that a load job of the run has written holds exactly the
\* rows of the dataset of the latest such job (no row of an earlier load or
\* run is left), and the row count a unit reports after its load is the row
\* count of its merged dataset.
C6_ReplaceLoad ==
    /\ \A k \in DOMAIN lastLoad : tables[k] = lastLoad[k].rows
    /\ (unit.done /\ LastEntry[1] = "Loaded") => LastEntry[2] = ToString(Len(unit.arg))

\* the same dataset has been loaded into a table that held it already
C6_Witness ==
    \E k \in DOMAIN lastLoad :
       /\ lastLoad[k].rows # <<>>
       /\ lastLoad[k].before = lastLoad[k].rows
       /\ Len(tables[k]) = Len(lastLoad[k].before)
       /\ Len(results) = 2
       /\ results[1] = results[2]
       /\ results[1][1] = "Loaded"

InGroup == pc \in {"view", "department", "team", "export"} \/ Uploading
MidUnit == pc \in {"team", "export"} \/ Uploading

\* the outcome string e names the unit u = <<view index, view name, department>>
EntryIsOf(e, u) ==
    LET v == aggregated_views[u[1]]
        d == u[3]
    IN  IF e[1] = "No teams found for" THEN e[2] = d /\ e[4] = group_name
        ELSE IF e[1] = "No sheet name for" THEN e[2] = v.name
        ELSE IF e[1] \in {"No data collected for", "Error processing combined data for"}
        THEN e[2] = v.name /\ e[4] = d
        ELSE IF e[1] = "Loaded"
        THEN SubSeq(e, 6, Len(e)) =
                get_table_name(v, d, group_config.use_department_prefixes)
        ELSE e[1] = "Error uploading to BigQuery:"

TracesSource(e, team) == team \in SeqRange(e) \/ e[1] # "Loaded"

\* the export of the i-th source of the unit raised, after the retries
\* (HttpError with a retryable status, Exception) or at once
ExportRaised(u, i) ==
    /\ u.src[i] = "failed"
    /\ \E r \in u.log : r[2] = u.teams[i] /\ r[3] \in {"HttpError", "Exception"}

SameInputs(a, b) ==
    /\ a.table_id = b.table_id
    /\ a.department = b.department
    /\ a.use_department_prefixes = b.use_department_prefixes

DepartmentOfTeam(g, team) ==
    LET i == CHOOSE i \in 1..Len(g.team_sheets) : g.team_sheets[i].team = team
    IN  g.team_sheets[i].department

\* C10: in a group, for a view that sets a department X only sources of
\* department X are exported, every unit of the view is (view, X), there
\* is at most one such unit and exactly one once the view is over.
C10_ExplicitDepartmentOnly ==
    InGroup =>
       \A k \in 1..Len(aggregated_views) :
          aggregated_views[k].department # Missing =>
             LET X == aggregated_views[k].department
                 ofView == {i \in 1..Len(units) : units[i][1] = k}
             IN  /\ \A f \in fetchLog :
                       (f[1] = group_name /\ f[2] = k) =>
                          DepartmentOfTeam(group_config, f[3]) = X
                 /\ \A i \in ofView : units[i][3] = X
                 /\ Cardinality(ofView) <= 1
                 /\ vi > k => Cardinality(ofView) = 1

C10_Witness ==
    /\ InGroup
    /\ config = ConfigExplicit
    /\ vi = 2
    /\ units = << <<1, "forecast", "Paid Media">> >>
    /\ {f \in fetchLog : f[2] = 1} = {<<"A", 1, "T1">>, <<"A", 1, "T2">>}
    /\ \E i \in 1..Len(team_sheets) :
          /\ team_sheets[i].department = "Paid Content"
          /\ Truthy(team_sheets[i].sheet_id) /\ ~IsBlank(team_sheets[i].sheet_id)

SheetIdOfTeam(g, team) ==
    LET i == CHOOSE i \in 1..Len(g.team_sheets) : g.team_sheets[i].team = team
    IN  g.team_sheets[i].sheet_id

NoSheetId(id) == id = Missing \/ IsBlank(id)

\* C11: a source whose sheet_id is missing, empty or blank is never
\* exported (no export call is started for it, so no attempt and no retry is
\* made), it is marked skipped, and the other sources of its unit are still
\* processed: when the unit ends, every source with a sheet_id has been
\* exported and has reached an outcome.
C11_BlankSourceSkipped ==
    InGroup =>
       /\ \A f \in fetchLog :
             f[1] = group_name => ~NoSheetId(SheetIdOfTeam(group_config, f[3]))
       /\ \A i \in DOMAIN unit.src :
             LET id == SheetIdOfTeam(group_config, unit.teams[i])
             IN  /\ unit.src[i] = "skipped" => NoSheetId(id)
                 /\ (NoSheetId(id) /\ pc = "export") => ti # i
                 /\ (unit.done /\ NoSheetId(id)) => unit.src[i] = "skipped"
                 /\ (unit.done /\ ~NoSheetId(id)) =>
                       /\ unit.src[i] \in {"usable", "nodata", "failed"}
                       /\ \E f \in fetchLog : f[1] = group_name /\ f[3] = unit.teams[i]

C11_Witness ==
    /\ InGroup /\ unit.done
    /\ unit.teams = <<"T6", "T5", "T7">>
    /\ unit.src = <<"skipped", "usable", "skipped">>
    /\ LastEntry[1] = "Loaded"
    /\ \A f \in fetchLog : f[3] \notin {"T6", "T7"}

\* where the column c is first seen in the frames: <<frame, place>>
FirstSeen(frames, c) ==
    LET k == CHOOSE k \in 1..Len(frames) :
                /\ c \in SeqRange(frames[k].columns)
                /\ \A j \in 1..(k - 1) : c \notin SeqRange(frames[j].columns)
    IN  <<k, PositionOf(frames[k].columns, c)>>

Earlier(a, b) == a[1] < b[1] \/ (a[1] = b[1] /\ a[2] < b[2])

\* the frame and the row in it that the n-th merged row comes from
RECURSIVE SourceOfRow(_, _, _)
SourceOfRow(frames, k, n) ==
    IF n <= Len(frames[k].rows) THEN <<k, n>>
    ELSE SourceOfRow(frames, k + 1, n - Len(frames[k].rows))

\* C12: the merged frame has the union of the columns of the merged frames,
\* each once and in the order they are first seen; its rows are as many as
\* the rows of the merged frames together; every merged row has every
\* column of the union, with the value of its source row where the source
\* has the column and null otherwise.
C12_MergeInvariant ==
    pc = "data_merged" =>
       LET frames == all_team_data
           columns == combined_df.columns
       IN  /\ SeqRange(columns) =
                 UNION {SeqRange(frames[k].columns) : k \in 1..Len(frames)}
           /\ \A i, j \in 1..Len(columns) :
                 i < j => /\ columns[i] # columns[j]
                          /\ Earlier(FirstSeen(frames, columns[i]),
                                     FirstSeen(frames, columns[j]))
           /\ Len(combined_df.rows) = Sum([k \in 1..Len(frames) |-> Len(frames[k].rows)],
                                          Len(frames))
           /\ \A n \in 1..Len(combined_df.rows) :
                 LET src == SourceOfRow(frames, 1, n)
                     f == frames[src[1]]
                     row == combined_df.rows[n]
                 IN  /\ DOMAIN row = SeqRange(columns)
                     /\ \A c \in SeqRange(columns) :
                           row[c] = IF c \in SeqRange(f.columns)
                                    THEN f.rows[src[2]][c] ELSE Null

\* frames with the columns (hours), (hours, KW) and (KW, Name) before the
\* metadata columns have been merged
C12_Witness ==
    /\ pc = "data_merged"
    /\ Len(all_team_data) = 3
    /\ combined_df.columns = <<"hours", "googlesheet_name", "department",
                               "import_timestamp", "KW", "Name">>
    /\ Len(combined_df.rows) = 4
    /\ combined_df.rows[1]["KW"] = Null
    /\ combined_df.rows[4]["hours"] = Null

GroupNamed(key) ==
    (CHOOSE i \in 1..Len(config.items) : config.items[i].key = key)

UntouchedUnit(u) ==
    ~u.fetching /\ ~u.merged /\ ~u.upload /\ ~u.staging /\ ~u.load

\* the view of the unit that is being processed or was processed last
UnitView == aggregated_views[units[Len(units)][1]]

InFlight(u) ==
    {i \in DOMAIN u.src :
        /\ u.src[i] = "pending"
        /\ \E f \in fetchLog : f[1] = group_name /\ f[2] = vi /\ f[3] = u.teams[i]}

SetupFailed == setup \in {"config_unreadable", "config_no_object", "config_incomplete",
                          "no_credentials"}

\* C15: whenever main has returned, its envelope carries a status (success
\* or error), a message and a duration; an error comes with the status code
\* 500; and the status is error when the configuration could not be read or
\* used or the credentials could not be obtained.
C15_Envelope ==
    pc = "main_done" =>
       /\ {"status", "message", "duration"} \subseteq DOMAIN response
       /\ response.status \in {"success", "error"}
       /\ response.status = "error" => response.code = 500
       /\ SetupFailed => response.status = "error"

\* C16: the payload of the event changes nothing.  A run without payload
\* always calls import_team_capacity and returns the success envelope of
\* what that returned; so must then a run with any payload, given the same
\* configuration and the same outcomes of the sources: when main has
\* returned, the import has run and the response is its success envelope.
C16_PayloadIgnored ==
    pc = "main_done" =>
       /\ setup # "pending"
       /\ response = SuccessEnvelope(returned)

\* the tables the units of the group g load
TablesOfGroup(g) ==
    {TableKey(g.dataset_id,
              get_table_name(g.aggregated_views[k], d, g.use_department_prefixes)) :
        k \in 1..Len(g.aggregated_views),
        d \in {g.team_sheets[i].department : i \in 1..Len(g.team_sheets)}}

IsGroupNamed(key) ==
    \E i \in 1..Len(config.items) :
       config.items[i].key = key /\ IsDataGroup(config.items[i].value)

\* C17: with CONFIG_GROUP set to G only the group G is processed: every
\* export, every table name and every load of the run is one of G, no other
\* group is entered, and the returned entries are those of G alone; when no
\* data group is named G nothing is attempted and the one entry returned
\* says that no groups were processed for the target group G.
C17_TargetGroupOnly ==
    Truthy(target_group) =>
       /\ \A f \in fetchLog : f[1] = target_group
       /\ \A c \in nameCalls : c.at[1] = target_group
       /\ InGroup => group_name = target_group
       /\ groups_processed <= 1
       /\ lastLoad # <<>> =>
             /\ IsGroupNamed(target_group)
             /\ DOMAIN lastLoad \subseteq
                   TablesOfGroup(config.items[GroupNamed(target_group)].value)
       /\ (pc = "done" /\ setup = "ok") =>
             IF IsGroupNamed(target_group)
             THEN /\ Len(returned) =
                        EntriesOfItem(config.items[GroupNamed(target_group)])
                  /\ groups_processed = 1
             ELSE /\ returned = << <<"No groups processed. Target group:", target_group>> >>
                  /\ NothingAttempted

\* B has been processed alone although A comes first in the configuration
C17_Witness ==
    /\ pc = "done" /\ setup = "ok"
    /\ config = ConfigShared /\ target_group = "B"
    /\ Len(returned) = 2
    /\ returned[1][1] = "Loaded"
    /\ fetchLog # {}
    /\ DOMAIN lastLoad = {TableKey("ds_a", <<"capacity">>)}

\* C18: no table is loaded by two different units of one group in a run:
\* the units <<group, view, department>> of a group that have loaded a
\* table are one and the same.
C18_OneUnitPerTable ==
    \A k \in DOMAIN lastLoad :
       \A u, w \in lastLoad[k].by : u[1] = w[1] => u = w

\* the stage the unit in process is in, by the position of the run:
\* fetching, merged and about to be staged, staged, the load job, the
\* table read back, ended
StageOf ==
    IF pc \in {"team", "export"} THEN 1
    ELSE IF pc = "upload_stage" THEN 2
    ELSE IF pc = "upload_dataset" THEN 3
    ELSE IF pc = "upload_load" THEN 4
    ELSE IF pc = "upload_get_table" THEN 5
    ELSE 6

UnitStagesInOrder ==
    (InGroup /\ unit.fetching) =>
       /\ unit.merged => \A i \in DOMAIN unit.src : unit.src[i] # "pending"
       /\ StageOf \in 2..5 => unit.merged /\ ~unit.done
       /\ unit.staging => unit.merged
       /\ unit.load => unit.staging
       /\ StageOf = 1 => ~unit.merged /\ ~unit.staging /\ ~unit.load /\ ~unit.done
       /\ StageOf = 6 => unit.done
       /\ unit.done =>
             \/ LastEntry[1] = "Loaded" /\ unit.load /\ unit.failure = ""
             \/ /\ LastEntry[1] = "Error uploading to BigQuery:"
                /\ unit.merged /\ unit.failure # ""
             \/ /\ LastEntry[1] = "Error processing combined data for"
                /\ unit.merge_raised /\ ~unit.staging
             \/ /\ LastEntry[1] = "No data collected for"
                /\ ~unit.merged /\ ~unit.merge_raised

UnitStageStep ==
    /\ (InGroup /\ InGroup' /\ units' = units /\ unit.fetching) =>
          StageOf' >= StageOf
    /\ (InGroup /\ InGroup' /\ Len(units') = Len(units) + 1 /\ units # <<>>) =>
          unit.done

\* C19: a unit that starts fetching goes through its stages in order and
\* enters none twice: all its sources have reached an outcome before the
\* merge, the merge comes before the staging write and the staging write
\* before the load job; it ends with exactly one of the outcomes loaded,
\* failed and no data; and the next unit of the group starts only after it
\* has ended.
C19_UnitStateMachine == []UnitStagesInOrder /\ [][UnitStageStep]_vars

\* the second unit of a group has loaded after the first ended without data
C19_Witness ==
    /\ InGroup /\ unit.done /\ unit.load
    /\ Len(units) = 2 /\ Len(results) = 2
    /\ results[1][1] = "No data collected for"
    /\ results[2][1] = "Loaded"
    /\ Len(unit.src) = 3

NonRetryable(e) == e.type = "HttpError" /\ e.status \notin {429, 500, 502, 503, 504}
RetryableHttp(e) == e.type = "HttpError" /\ e.status \in {429, 500, 502, 503, 504}

\* a non-retryable HTTP error ends the operation at once: it is raised from
\* the attempt it occurred on, after no sleep but those of the failed
\* attempts before it, and the operation never runs on with it
FailsAtOnce ==
    /\ (ret = "raised" /\ NonRetryable(last_exception)) =>
          /\ attempt < MAX_RETRIES
          /\ Len(sleeps) = attempt
          /\ \A i \in 1..Len(sleeps) : sleeps[i] = RETRY_DELAY_BASE * Pow2(i - 1)
    /\ ret = "running" => ~NonRetryable(last_exception)

\* C20 as stated: a non-retryable HTTP error fails the operation at once,
\* and an attempt is repeated only after an HTTP error with one of the
\* statuses 429, 500, 502, 503, 504.
C20_Original ==
    /\ FailsAtOnce
    /\ (ret = "running" /\ attempt > 0) => RetryableHttp(last_exception)

\* C20 (amended): a non-retryable HTTP error fails the operation at once,
\* on whichever attempt it occurs, with no sleep and no further attempt;
\* an attempt is repeated after an HTTP error with one of the statuses 429,
\* 500, 502, 503, 504 and also after any exception that is no HTTP error.
C20_NonRetryableFailsAtOnce ==
    /\ FailsAtOnce
    /\ (ret = "running" /\ attempt > 0) =>
          (RetryableHttp(last_exception) \/ last_exception.type = "Exception")

\* resource not found on the third attempt, after two retried failures
C20_Witness ==
    /\ call = "export_sheet_to_gcs_with_retry"
    /\ ret = "raised"
    /\ last_exception = HttpError(404)
    /\ attempt = 2
    /\ sleeps = <<RETRY_DELAY_BASE, 2 * RETRY_DELAY_BASE>>

C22_RunTerminates ==
    /\ [](attempt <= MAX_RETRIES)
    /\ (ret = "running") ~> (ret \in {"returned", "raised"})
    /\ (pc = "upload_load") ~> (pc # "upload_load")
    /\ MidUnit ~> unit.done
    /\ <>(pc = "main_done" /\ response # NoResponse)

\* the run has returned although the load job of a unit timed out and no
\* source of another unit could be exported
C22_Witness ==
    /\ pc = "main_done"
    /\ response # NoResponse
    /\ \E i \in DOMAIN returned :
          returned[i] = <<"Error uploading to BigQuery:", "timeout">>
    /\ \E i \in DOMAIN returned : returned[i][1] = "No data collected for"

\* the normalisation of the source before the current one has just returned
JustNormalized(status) ==
    /\ pc = "team"
    /\ unit.fetching
    /\ ti - 1 \in DOMAIN unit.src
    /\ unit.src[ti - 1] = status

\* C23 as stated: when the file of a source holds the header line only, the
\* result that process_team_sheet_from_gcs hands to the team loop is not the
\* result it returns when the download or the parsing raised.
C23_Original ==
    JustNormalized("nodata") => team_df # ReturnedOnError

\* C23 (amended): process_team_sheet_from_gcs returns None both for a file
\* without data rows and for a failed download or parse; the two differ in
\* the log only (a warning against an error).  Neither joins all_team_data;
\* a file with data rows gives a frame, which does.
C23_NoDataIsNone ==
    /\ JustNormalized("nodata") =>
          /\ team_df = [columns |-> <<>>, rows |-> <<>>, none |-> TRUE]
          /\ <<"warning", unit.teams[ti - 1], "">> \in unit.log
    /\ (JustNormalized("failed") /\ <<"error", unit.teams[ti - 1], "read">> \in unit.log) =>
          team_df = [columns |-> <<>>, rows |-> <<>>, none |-> TRUE]
    /\ JustNormalized("usable") =>
          /\ ~team_df.none
          /\ team_df.rows # <<>>
          /\ all_team_data[Len(all_team_data)] = team_df.rows
    /\ (pc = "team" /\ unit.fetching) =>
          Len(all_team_data) = Cardinality(SourcesIn(unit, "usable"))

\* a source without data rows right after a source whose file could not be
\* read: None both times
C23_Witness ==
    /\ JustNormalized("nodata")
    /\ ti > 2
    /\ unit.src[ti - 2] = "failed"
    /\ <<"error", unit.teams[ti - 2], "read">> \in unit.log
    /\ team_df.none
    /\ all_team_data = <<>>

\* the columns that lines 173-175 add to every frame
ProvenanceColumns == {"googlesheet_name", "department", "import_timestamp"}

\* the row holds a value in a column that came from the source
HasSourceValue(row) == \E c \in DOMAIN row \ ProvenanceColumns : row[c] # Null

\* C24: a data row of a source whose cells are all empty, whitespace-only or
\* one of the markers gives no row of the normalized frame and no row of the
\* merged frame: every row of the frames in all_team_data and of combined_df
\* holds a value in at least one column read from the source.
C24_EmptyRowsDropped ==
    /\ \A k \in DOMAIN all_team_data :
          \A i \in DOMAIN all_team_data[k].rows : HasSourceValue(all_team_data[k].rows[i])
    /\ pc = "data_merged" =>
          \A i \in DOMAIN combined_df.rows : HasSourceValue(combined_df.rows[i])

\* C25: an upload that found its dataset absent and lost the race for its
\* creation against another loader does not end in an error: no unit ends
\* with the Conflict of create_dataset as its outcome.
C25_RaceTolerated ==
    /\ unit.failure # "conflict"
    /\ (unit.upload /\ unit.done /\ unit.failure = "") => unit.load

\* empty, whitespace-only or one of the two markers
NullEquivalent(text) == text \in {"", " ", "  ", "nichts gefunden", "#VALUE!"}

\* the rows that the load job of the data path wrote
LoadedRows ==
    tables[TableKey("ds_a", get_table_name(DataView, DataTeams[1].department, TRUE))]

\* the n-th of rows holds the cells of its source row: the text of a cell
\* that is not null-equivalent, null for one that is
CellsPreserved(rows, n) ==
    LET src == SourceOfRow(all_team_data, 1, n)
        csv == csv_contents[src[1]]
    IN  \A p \in 1..Len(csv.header) :
           LET text == csv.rows[src[2]][p]
               c == RenamedTo(DataView.columns, csv.header[p])
           IN  rows[n][c] = IF NullEquivalent(text) THEN Null ELSE text

\* C26: every cell of a source that was read is staged and loaded as its
\* text when the text is not null-equivalent (also when the text is "None"
\* or "nan"), and as null when it is.
C26_ValuesPreserved ==
    /\ pc \in {"data_staged", "data_loaded"} =>
          \A n \in 1..Len(staged) : CellsPreserved(FromJsonl(staged), n)
    /\ pc = "data_loaded" =>
          /\ Len(LoadedRows) = Len(combined_df.rows)
          /\ \A n \in 1..Len(LoadedRows) : CellsPreserved(LoadedRows, n)

\* C27: the configuration and the outcomes of the sources fix the run.
\* Where a view is about to be processed, the run so far leaves one order
\* only for the departments of the view, so that two runs that agree up to
\* there go through the same units in the same order.
C27_DepartmentOrderFixed ==
    (pc = "view" /\ vi <= Len(aggregated_views)) =>
        \A first, second \in DepartmentLists(view, team_sheets) : first = second

\* the worksheet that the request in flight names
RequestSelector ==
    IF "range" \in DOMAIN request THEN request.range[1] ELSE Missing

\* C28: the request sent for a source of a unit names the worksheet of the
\* view of the unit: while the export of a team sheet is in flight, its
\* request carries the sheet_name of the view.
C28_RequestCarriesSelector ==
    (pc = "export" /\ call = "export_sheet_to_gcs_with_retry") =>
        /\ request.fileId = team_sheet.sheet_id
        /\ RequestSelector = view.sheet_name

====
